---- MODULE Spec2Model ----
(***************************************************************************)
(* State-machine model of src/index.tsx: the request configurator          *)
(* (determineConfig), the streaming session driver (handleSend), the       *)
(* conversation store (localHistory, saveMessage) and the events that      *)
(* change what they read (input, attachment, developer console).           *)
(*                                                                         *)
(* JavaScript strings that the code inspects (regex tests, includes,       *)
(* startsWith, trim, concatenation) are sequences of one-character         *)
(* strings, so that these operations are computed and not assumed.         *)
(* An optional object field is a set with at most one element: {} is an    *)
(* absent field, {v} a field holding v.                                    *)
(***************************************************************************)
EXTENDS Integers, Sequences, FiniteSets, TLC

\* ---------------------------------------------------------------- strings

M_FLASH_LITE == <<"g", "e", "m", "i", "n", "i", "-", "2", ".", "5", "-", "f", "l", "a", "s", "h", "-", "l", "i", "t", "e">>
M_PRO == <<"g", "e", "m", "i", "n", "i", "-", "3", "-", "p", "r", "o", "-", "p", "r", "e", "v", "i", "e", "w">>
M_FLASH == <<"g", "e", "m", "i", "n", "i", "-", "3", "-", "f", "l", "a", "s", "h", "-", "p", "r", "e", "v", "i", "e", "w">>
L_FlashLite == <<"G", "e", "m", "i", "n", "i", " ", "F", "l", "a", "s", "h", " ", "L", "i", "t", "e">>
L_Video == <<"V", "i", "d", "e", "o", " ", "I", "n", "t", "e", "l", "l", "i", "g", "e", "n", "c", "e">>
L_Visual == <<"V", "i", "s", "u", "a", "l", " ", "A", "n", "a", "l", "y", "s", "i", "s">>
L_Think == <<"D", "e", "e", "p", " ", "T", "h", "i", "n", "k", "i", "n", "g">>
L_Search == <<"G", "o", "o", "g", "l", "e", " ", "S", "e", "a", "r", "c", "h">>
L_Maps == <<"G", "o", "o", "g", "l", "e", " ", "M", "a", "p", "s">>
L_Pro == <<"G", "e", "m", "i", "n", "i", " ", "P", "r", "o">>
L_Lite == <<"G", "e", "m", "i", "n", "i", " ", "L", "i", "t", "e">>
L_Custom == <<"G", "e", "m", "i", "n", "i", " ", "C", "u", "s", "t", "o", "m">>
L_DevSuffix == <<" ", "(", "D", "e", "v", ")">>
S_lite == <<"l", "i", "t", "e">>
S_video == <<"v", "i", "d", "e", "o">>
S_imageSlash == <<"i", "m", "a", "g", "e", "/">>
S_videoSlash == <<"v", "i", "d", "e", "o", "/">>
S_undefined == <<"u", "n", "d", "e", "f", "i", "n", "e", "d">>
P_Card1 == <<"F", "i", "n", "d", " ", "t", "h", "e", " ", "l", "a", "t", "e", "s", "t", " ", "d", "e", "v", "e", "l", "o", "p", "m", "e", "n", "t", "s", " ", "i", "n", " ", "A", "I">>
P_Card2 == <<"A", "n", "a", "l", "y", "z", "e", " ", "t", "h", "i", "s", " ", "i", "m", "a", "g", "e", " ", "f", "o", "r", " ", "d", "e", "s", "i", "g", "n", " ", "p", "a", "t", "t", "e", "r", "n", "s">>
P_Card3 == <<"A", "r", "c", "h", "i", "t", "e", "c", "t", " ", "a", " ", "s", "c", "a", "l", "a", "b", "l", "e", " ", "b", "a", "c", "k", "e", "n", "d", " ", "s", "y", "s", "t", "e", "m">>

SEARCH_WORDS ==
  { <<"s", "e", "a", "r", "c", "h">>,
    <<"f", "i", "n", "d">>,
    <<"l", "a", "t", "e", "s", "t">>,
    <<"n", "e", "w", "s">>,
    <<"g", "o", "o", "g", "l", "e">>,
    <<"w", "e", "a", "t", "h", "e", "r">>,
    <<"p", "r", "i", "c", "e">>,
    <<"s", "t", "o", "c", "k">> }

THINK_WORDS ==
  { <<"t", "h", "i", "n", "k">>,
    <<"r", "e", "a", "s", "o", "n">>,
    <<"p", "l", "a", "n">>,
    <<"c", "o", "m", "p", "l", "e", "x">>,
    <<"s", "o", "l", "v", "e">>,
    <<"m", "a", "t", "h">>,
    <<"o", "p", "t", "i", "m", "i", "z", "e">>,
    <<"a", "r", "c", "h", "i", "t", "e", "c", "t">>,
    <<"c", "o", "d", "e">> }

SAFETY_CATEGORIES ==
  << "HARM_CATEGORY_HARASSMENT", "HARM_CATEGORY_HATE_SPEECH",
     "HARM_CATEGORY_SEXUALLY_EXPLICIT", "HARM_CATEGORY_DANGEROUS_CONTENT" >>

THINKING_BUDGET == 32768

\* ------------------------------------------------- JavaScript string library

UpperCase ==
  << "A", "B", "C", "D", "E", "F", "G", "H", "I", "J", "K", "L", "M",
     "N", "O", "P", "Q", "R", "S", "T", "U", "V", "W", "X", "Y", "Z" >>

LowerCase ==
  << "a", "b", "c", "d", "e", "f", "g", "h", "i", "j", "k", "l", "m",
     "n", "o", "p", "q", "r", "s", "t", "u", "v", "w", "x", "y", "z" >>

WhiteSpace == { " ", "\t", "\n", "\r" }

\* the case folding of the regular expressions' i flag
FoldChar(c) ==
  IF \E i \in 1..Len(UpperCase) : UpperCase[i] = c
    THEN LowerCase[CHOOSE i \in 1..Len(UpperCase) : UpperCase[i] = c]
    ELSE c

FoldCase(s) == [i \in 1..Len(s) |-> FoldChar(s[i])]

\* the value of an optional field that is present
The(S) == CHOOSE x \in S : TRUE

\* String.prototype.includes
Includes(s, w) ==
  \E i \in 0..(Len(s) - Len(w)) : SubSeq(s, i + 1, i + Len(w)) = w

\* String.prototype.startsWith
StartsWith(s, p) == Len(p) <= Len(s) /\ SubSeq(s, 1, Len(p)) = p

\* String.prototype.trim
Trim(s) ==
  LET keep == { i \in 1..Len(s) : s[i] \notin WhiteSpace } IN
  IF keep = {} THEN <<>>
  ELSE SubSeq(s, CHOOSE i \in keep : \A j \in keep : i <= j,
                 CHOOSE i \in keep : \A j \in keep : i >= j)

\* RegExp.prototype.test of /w1|w2|.../i : the expressions carry no g or y
\* flag, so test keeps no position between calls
RegexTest(words, text) == \E w \in words : Includes(FoldCase(text), w)

\* INTENTS.SEARCH.test and INTENTS.THINK.test
IntentSearch(text) == RegexTest(SEARCH_WORDS, text)

IntentThink(text) == RegexTest(THINK_WORDS, text)

\* ------------------------------------------------------------------ bounds

\* sends per run, fragments per stream
MaxSends == 2

MaxChunks == 1

\* the latest reading of the clock
MaxClock == 2

\* fragments per stream where the fragments carry grounding metadata
MaxGroundedChunks == 2

\* ------------------------------------------------------------------- state

VARIABLES
  input,                \* input.value, the text field
  currentMedia,         \* {} or {[data, mimeType]}: the staged attachment
  isDevMode,
  devConfig,
  appState,
  welcomeVisible,       \* welcomeView is displayed (its cards can be clicked)
  localHistory,         \* the conversation store
  lastResponseContent,
  storage,              \* localStorage: the three records, each {} or {value}
  sessions,             \* one record per handleSend invocation that passed its guard
  now,                  \* the clock Date.now() reads
  lastConfig,           \* the latest determineConfig call: what it read, what it returned
  quickActions,         \* the chips in quickActionsBar, by label
  probe                 \* {} or one earlier determineConfig call, kept for comparison

vars ==
  << input, currentMedia, isDevMode, devConfig, appState, welcomeVisible,
     localHistory, lastResponseContent, storage, sessions, now, lastConfig, quickActions, probe >>

DefaultDevConfig ==
  [ systemInstruction |-> <<>>,
    temperature       |-> 10,      \* tenths: 1.0
    topP              |-> 95,      \* hundredths: 0.95
    maxOutputTokens   |-> 2048,
    model             |-> M_FLASH_LITE,
    safetyThreshold   |-> "BLOCK_MEDIUM_AND_ABOVE",
    tools             |-> [googleSearch |-> FALSE, googleMaps |-> FALSE, thinking |-> FALSE],
    forceTools        |-> FALSE ]

\* ----------------------------------------------------------- determineConfig

EmptyConfig ==
  [ thinkingConfig    |-> {},
    tools             |-> {},
    systemInstruction |-> {},
    temperature       |-> {},
    topP              |-> {},
    maxOutputTokens   |-> {},
    safetySettings    |-> {} ]

useSearchAuto(text) == IntentSearch(text)

useSearch(text) ==
  IF isDevMode /\ devConfig.forceTools THEN devConfig.tools.googleSearch
  ELSE IntentSearch(text)

useThinking(text) ==
  IF isDevMode /\ devConfig.forceTools THEN devConfig.tools.thinking
  ELSE IntentThink(text)

useMapsUnforced == devConfig.tools.googleMaps

useMaps ==
  IF isDevMode /\ devConfig.forceTools THEN devConfig.tools.googleMaps
  ELSE FALSE

mediaModeLabelBySubtype ==
  IF \E m \in currentMedia : m.mimeType = <<"i", "m", "a", "g", "e", "/", "p", "n", "g">>
    THEN L_Visual ELSE L_Video

\* currentMedia?.mimeType.startsWith('video') ? 'Video Intelligence' : 'Visual Analysis'
mediaModeLabel ==
  IF \E m \in currentMedia : StartsWith(m.mimeType, S_video)
    THEN L_Video ELSE L_Visual

toolList(text) ==
  (IF useSearch(text) THEN << "googleSearch" >> ELSE <<>>)
  \o (IF useMaps THEN << "googleMaps" >> ELSE <<>>)

devModelLabel(model) ==
  IF model = M_PRO THEN L_Pro
  ELSE IF Includes(model, S_lite) THEN L_Lite
  ELSE L_Custom

\* the branch chain that picks model, tools and label
selectModel(text, hasMedia) ==
  IF hasMedia THEN
    [ model |-> M_PRO, config |-> EmptyConfig,
      modeLabel |-> mediaModeLabel, visualState |-> "glow-vision" ]
  ELSE IF useThinking(text) THEN
    [ model |-> M_PRO,
      config |-> [EmptyConfig EXCEPT
                    !.thinkingConfig = {[thinkingBudget |-> THINKING_BUDGET]}],
      modeLabel |-> L_Think, visualState |-> "glow-think" ]
  ELSE IF useSearch(text) \/ useMaps THEN
    [ model |-> M_FLASH,
      config |-> [EmptyConfig EXCEPT !.tools = {toolList(text)}],
      modeLabel |-> IF useSearch(text) THEN L_Search ELSE L_Maps,
      visualState |-> IF useSearch(text) THEN "glow-search" ELSE "glow-maps" ]
  ELSE IF isDevMode THEN
    [ model |-> devConfig.model, config |-> EmptyConfig,
      modeLabel |-> devModelLabel(devConfig.model), visualState |-> "glow-active" ]
  ELSE
    [ model |-> M_FLASH_LITE, config |-> EmptyConfig,
      modeLabel |-> L_FlashLite, visualState |-> "glow-active" ]

maxTokensAlways(config) == {devConfig.maxOutputTokens}

\* config.maxOutputTokens is set only when no thinkingConfig is
maxTokensOverride(config) ==
  IF config.thinkingConfig = {} THEN {devConfig.maxOutputTokens} ELSE {}

safetySettings ==
  [ i \in 1..Len(SAFETY_CATEGORIES) |->
      [category |-> SAFETY_CATEGORIES[i], threshold |-> devConfig.safetyThreshold] ]

\* the developer-mode overlay applied after the branch chain
devOverrides(d) ==
  IF isDevMode THEN
    [ d EXCEPT
        !.config =
          [ @ EXCEPT
              !.systemInstruction =
                 IF Trim(devConfig.systemInstruction) # <<>>
                   THEN {devConfig.systemInstruction} ELSE {},
              !.temperature = {devConfig.temperature},
              !.topP = {devConfig.topP},
              !.maxOutputTokens = maxTokensOverride(d.config),
              !.safetySettings = {safetySettings} ],
        !.modeLabel = @ \o L_DevSuffix ]
  ELSE d

determineConfig(text, hasMedia) == devOverrides(selectModel(text, hasMedia))

\* a determineConfig call together with everything it read
ConfigCall(text, hasMedia) ==
  [ text |-> text, hasMedia |-> hasMedia, isDevMode |-> isDevMode,
    devConfig |-> devConfig, media |-> currentMedia,
    result |-> determineConfig(text, hasMedia) ]

\* ---------------------------------------------------- getContextualActions

S_image == <<"i", "m", "a", "g", "e">>

S_code == <<"c", "o", "d", "e">>

S_function == <<"f", "u", "n", "c", "t", "i", "o", "n">>

S_constSpace == <<"c", "o", "n", "s", "t", " ">>

\* the character U+0060, which a TLA+ string cannot hold
Backquote == "U+0060"

S_fence == << Backquote, Backquote, Backquote >>

\* a response longer than this gets the Summarize chip
SUMMARIZE_LENGTH == 500

\* actions.slice(0, 4)
MAX_ACTIONS == 4

\* something is staged: the chips about it, by label
mediaActions ==
  << "Describe" >>
  \o (IF \E m \in currentMedia : StartsWith(m.mimeType, S_image)
        THEN << "Extract Text" >> ELSE <<>>)
  \o << "Analyze" >>

\* the test of the first branch for a non-empty text
looksLikeCode(text) ==
  Includes(text, S_code) \/ Includes(text, S_function) \/ Includes(text, S_constSpace)

\* the text field is not empty: one branch of the chain, or the writing chips
textActions(text) ==
  IF looksLikeCode(text) THEN << "Fix Bugs", "Explain" >>
  ELSE IF IntentSearch(text) THEN << "Deep Dive", "Fact Check" >>
  ELSE IF IntentThink(text) THEN << "Break Down" >>
  ELSE << "Improve", "Creative Twist", "Expand" >>

followUpWithoutFence(lastMsgRole) ==
  IF lastMsgRole = {"model"} /\ lastResponseContent # <<>>
    THEN (IF Len(lastResponseContent) > SUMMARIZE_LENGTH THEN << "Summarize" >> ELSE <<>>)
         \o << "Verify" >>
    ELSE <<>>

\* nothing typed or staged, the last message is a model turn and
\* lastResponseContent is truthy
followUpActions(lastMsgRole) ==
  IF lastMsgRole = {"model"} /\ lastResponseContent # <<>>
    THEN (IF Includes(lastResponseContent, S_fence) THEN << "Refactor", "Add Comments" >>
          ELSE IF Len(lastResponseContent) > SUMMARIZE_LENGTH THEN << "Summarize" >>
          ELSE <<>>)
         \o << "Verify" >>
    ELSE <<>>

slice(s, from, to) == SubSeq(s, from + 1, IF to < Len(s) THEN to ELSE Len(s))

\* the labels of the suggested actions, in order; lastMsgRole is {} when the
\* store is empty
getContextualActions(text, hasMedia, lastMsgRole) ==
  IF hasMedia THEN mediaActions
  ELSE IF Len(text) > 0 THEN textActions(text)
  ELSE LET actions == followUpActions(lastMsgRole) IN
       slice(IF actions = <<>> THEN << "Brainstorm", "Plan" >> ELSE actions, 0, MAX_ACTIONS)

\* lastMsg?.role in updateQuickActions
lastMsgRole(hist) == IF Len(hist) > 0 THEN {hist[Len(hist)].role} ELSE {}

\* ------------------------------------------------- renderGroundingSources

\* the cards appended for the sources: s.maps is read on the web or maps
\* entry itself
sourceCard(s) ==
  [ href |-> s.uri,
    title |-> IF s.title # {} THEN The(s.title) ELSE s.uri,
    icon |-> IF s.maps # {} THEN "place" ELSE "public" ]

\* chunks.filter(c => c[kind]).map(c => c[kind])
RECURSIVE sourcesOfKind(_, _)
sourcesOfKind(chunks, kind) ==
  IF chunks = <<>> THEN <<>>
  ELSE (IF Head(chunks)[kind] # {} THEN << The(Head(chunks)[kind]) >> ELSE <<>>)
       \o sourcesOfKind(Tail(chunks), kind)

\* metadata.groundingChunks || []
groundingChunks(metadata) ==
  IF metadata.groundingChunks = {} THEN <<>> ELSE The(metadata.groundingChunks)

sourceCards(metadata) ==
  LET all == sourcesOfKind(groundingChunks(metadata), "web")
             \o sourcesOfKind(groundingChunks(metadata), "maps")
  IN [ i \in 1..Len(all) |-> sourceCard(all[i]) ]

renderAppending(metadata, container) ==
  IF container = {} THEN {sourceCards(metadata)}
  ELSE {The(container) \o sourceCards(metadata)}

\* container is the .sources-grid of the message, {} while the message has no
\* .sources-container: the grid is created if missing, emptied, and filled
renderGroundingSources(metadata, container) ==
  LET grid == IF container = {} THEN <<>> ELSE The(container)
      emptied == <<>>
  IN {emptied \o sourceCards(metadata)}

\* ------------------------------------------------------------ input domains

\* what the user may type into the text field
Texts ==
  { <<>>,
    <<"h", "i">>,
    <<"W", "e", "a", "t", "h", "e", "r", "?">>,
    <<"s", "o", "l", "v", "e", " ", "i", "t">>,
    <<"f", "i", "n", "d", " ", "c", "o", "d", "e">> }

\* MIME types of the files the user may select, drop or paste
MimeTypes ==
  { <<"i", "m", "a", "g", "e", "/", "p", "n", "g">>,
    <<"v", "i", "d", "e", "o", "/", "m", "p", "4">>,
    <<"t", "e", "x", "t", "/", "c", "s", "v">> }

\* the data-prompt attributes of the welcome cards
CardPrompts == { P_Card1, P_Card2, P_Card3 }

\* values the developer console's controls may be set to
DevConfigs ==
  [ systemInstruction : { <<>>, <<"B", "e", " ", "t", "e", "r", "s", "e">> },
    temperature       : { 10 },
    topP              : { 95 },
    maxOutputTokens   : { 2048 },
    model             : { M_FLASH_LITE, M_FLASH, M_PRO },
    safetyThreshold   : { "BLOCK_MEDIUM_AND_ABOVE" },
    tools             : [googleSearch : BOOLEAN, googleMaps : BOOLEAN, thinking : BOOLEAN],
    forceTools        : BOOLEAN ]

\* what is in the text field when a send is triggered
SessionTexts == { <<>>, <<" ", "h", "i", " ">> }

\* text a response fragment may carry: {} is a fragment without text
ChunkTexts == { {<<"a">>}, {} }

\* response fragments without grounding metadata
PlainChunks == { [text |-> t, groundingMetadata |-> {}] : t \in ChunkTexts }

\* ------------------------------------------------------------------- JSON

\* JSON texts, by their structure: a value is tagged with its kind; an object
\* is the sequence of its members in insertion order
JString(s) == [t |-> "string", v |-> s]

JNumber(n) == [t |-> "number", v |-> n]

JBoolean(b) == [t |-> "boolean", v |-> b]

JArray(items) == [t |-> "array", v |-> items]

JObject(members) == [t |-> "object", v |-> members]

\* a text JSON.parse rejects
Unparsable == [t |-> "unparsable"]

\* one member of an object literal
Property(key, value) == << [k |-> key, v |-> value] >>

\* JSON.stringify leaves out a property whose value is undefined
OptionalProperty(key, values) ==
  IF values = {} THEN <<>> ELSE Property(key, CHOOSE x \in values : TRUE)

\* obj[key] of a parsed object: nothing when the text has no such member
Get(obj, key) == { obj.v[i].v : i \in { j \in 1..Len(obj.v) : obj.v[j].k = key } }

stringifyInlineData(d) ==
  JObject(Property("data", JString(d.data)) \o Property("mimeType", JString(d.mimeType)))

stringifyPart(p) ==
  JObject(OptionalProperty("inlineData", { stringifyInlineData(d) : d \in p.inlineData })
          \o OptionalProperty("text", { JString(x) : x \in p.text }))

stringifyMessageNoMode(m) ==
  JObject(Property("role", JString(m.role))
          \o Property("parts", JArray([i \in 1..Len(m.parts) |-> stringifyPart(m.parts[i])]))
          \o Property("timestamp", JNumber(m.timestamp)))

\* JSON.stringify of one Message
stringifyMessage(m) ==
  JObject(Property("role", JString(m.role))
          \o Property("parts", JArray([i \in 1..Len(m.parts) |-> stringifyPart(m.parts[i])]))
          \o Property("timestamp", JNumber(m.timestamp))
          \o OptionalProperty("mode", { JString(x) : x \in m.mode }))

\* JSON.stringify(localHistory)
stringifyHistory(hist) == JArray([i \in 1..Len(hist) |-> stringifyMessage(hist[i])])

parseInlineData(j) ==
  [ data |-> The(Get(j, "data")).v, mimeType |-> The(Get(j, "mimeType")).v ]

parsePart(j) ==
  [ text |-> { x.v : x \in Get(j, "text") },
    inlineData |-> { parseInlineData(x) : x \in Get(j, "inlineData") } ]

parseMessage(j) ==
  [ role |-> The(Get(j, "role")).v,
    parts |-> [i \in 1..Len(The(Get(j, "parts")).v) |-> parsePart(The(Get(j, "parts")).v[i])],
    timestamp |-> The(Get(j, "timestamp")).v,
    mode |-> { x.v : x \in Get(j, "mode") } ]

\* JSON.parse(storedHistory), read as Message[]
parseHistory(j) == [i \in 1..Len(j.v) |-> parseMessage(j.v[i])]

\* JSON.stringify(devConfig)
stringifyDevConfig(c) ==
  JObject(Property("systemInstruction", JString(c.systemInstruction))
          \o Property("temperature", JNumber(c.temperature))
          \o Property("topP", JNumber(c.topP))
          \o Property("maxOutputTokens", JNumber(c.maxOutputTokens))
          \o Property("model", JString(c.model))
          \o Property("safetyThreshold", JString(c.safetyThreshold))
          \o Property("tools",
               JObject(Property("googleSearch", JBoolean(c.tools.googleSearch))
                       \o Property("googleMaps", JBoolean(c.tools.googleMaps))
                       \o Property("thinking", JBoolean(c.tools.thinking))))
          \o Property("forceTools", JBoolean(c.forceTools)))

parseTools(j) ==
  [ googleSearch |-> The(Get(j, "googleSearch")).v,
    googleMaps |-> The(Get(j, "googleMaps")).v,
    thinking |-> The(Get(j, "thinking")).v ]

\* { ...devConfig, ...JSON.parse(storedConfig) }: a stored member replaces the
\* default of the same name; tools is replaced as a whole
spreadDevConfig(base, j) ==
  [ systemInstruction |-> IF Get(j, "systemInstruction") = {} THEN base.systemInstruction
                          ELSE The(Get(j, "systemInstruction")).v,
    temperature       |-> IF Get(j, "temperature") = {} THEN base.temperature
                          ELSE The(Get(j, "temperature")).v,
    topP              |-> IF Get(j, "topP") = {} THEN base.topP ELSE The(Get(j, "topP")).v,
    maxOutputTokens   |-> IF Get(j, "maxOutputTokens") = {} THEN base.maxOutputTokens
                          ELSE The(Get(j, "maxOutputTokens")).v,
    model             |-> IF Get(j, "model") = {} THEN base.model ELSE The(Get(j, "model")).v,
    safetyThreshold   |-> IF Get(j, "safetyThreshold") = {} THEN base.safetyThreshold
                          ELSE The(Get(j, "safetyThreshold")).v,
    tools             |-> IF Get(j, "tools") = {} THEN base.tools
                          ELSE parseTools(The(Get(j, "tools"))),
    forceTools        |-> IF Get(j, "forceTools") = {} THEN base.forceTools
                          ELSE The(Get(j, "forceTools")).v ]

\* localStorage of a returning user: no conversation, the console's defaults
\* written, developer mode left off
SettledStorage ==
  [ history |-> {}, config |-> {stringifyDevConfig(DefaultDevConfig)},
    devMode |-> {JBoolean(FALSE)} ]

\* ----------------------------------------------------------------- startup

\* the three records loaded from localStorage, each in its own try/catch: a
\* missing record or one JSON.parse throws on leaves the variable as declared
loadHistory(store) ==
  IF store.history = {} \/ store.history = {Unparsable} THEN <<>>
  ELSE parseHistory(The(store.history))

loadDevMode(store) ==
  IF store.devMode = {} \/ store.devMode = {Unparsable} THEN FALSE
  ELSE The(store.devMode).v

loadDevConfigInOneTry(store) ==
  IF store.config = {} \/ store.config = {Unparsable} \/ store.history = {Unparsable}
    THEN DefaultDevConfig
    ELSE spreadDevConfig(DefaultDevConfig, The(store.config))

loadDevConfig(store) ==
  IF store.config = {} \/ store.config = {Unparsable} THEN DefaultDevConfig
  ELSE spreadDevConfig(DefaultDevConfig, The(store.config))

restoreNothing(hist) == <<>>

\* lastResponseContent as App() restores it from the loaded history
restoreLastResponse(hist) ==
  IF hist # <<>> /\ hist[Len(hist)].role = "model"
    THEN (IF hist[Len(hist)].parts[1].text = {} THEN <<>>
          ELSE CHOOSE t \in hist[Len(hist)].parts[1].text : TRUE)
    ELSE <<>>

Startup(stores) ==
  /\ storage \in stores
  /\ localHistory = loadHistory(storage)
  /\ appState = IF Len(localHistory) > 0 THEN "chatting" ELSE "idle"
  /\ devConfig = loadDevConfig(storage)
  /\ isDevMode = loadDevMode(storage)
  /\ input = <<>>
  /\ currentMedia = {}
  /\ welcomeVisible = (Len(localHistory) = 0)
  /\ lastResponseContent = restoreLastResponse(localHistory)
  /\ sessions = <<>>
  /\ now = 1
  /\ lastConfig = IF isDevMode THEN {ConfigCall(input, currentMedia # {})} ELSE {}
  /\ quickActions = getContextualActions(input, currentMedia # {}, lastMsgRole(localHistory))
  /\ probe = {}

Init == Startup({SettledStorage})

\* --------------------------------------------------------------- UI events

\* updateQuickActions, evaluated in the state the handler leaves behind
updateQuickActions ==
  quickActions' = getContextualActions(input, currentMedia # {}, lastMsgRole(localHistory))'

\* updateUIForInput, evaluated in the state the handler leaves behind
updateUIForInput ==
  /\ lastConfig' = {ConfigCall(input, currentMedia # {})'}
  /\ updateQuickActions

UnchangedConversation ==
  UNCHANGED << appState, welcomeVisible, localHistory, lastResponseContent, sessions, now >>

\* the text field's input event
InputEvent(texts) ==
  \E t \in texts :
    /\ input' = t
    /\ UNCHANGED << currentMedia, isDevMode, devConfig, storage, probe >>
    /\ UnchangedConversation
    /\ updateUIForInput

\* handleFile and its reader.onload; a file that is neither image nor video
\* makes handleFile return at once
handleFile(mimes) ==
  \E mime \in mimes :
    IF StartsWith(mime, S_imageSlash) \/ StartsWith(mime, S_videoSlash)
    THEN /\ currentMedia' = {[data |-> "base64", mimeType |-> mime]}
         /\ UNCHANGED << input, isDevMode, devConfig, storage, probe >>
         /\ UnchangedConversation
         /\ updateUIForInput
    ELSE UNCHANGED vars

clearMedia ==
  /\ currentMedia # {}
  /\ currentMedia' = {}
  /\ UNCHANGED << input, isDevMode, devConfig, storage, probe >>
  /\ UnchangedConversation
  /\ updateUIForInput

setItemLanding(store, key, value, ok) == [store EXCEPT ![key] = {value}]

\* localStorage.setItem inside try/catch: the write happens or throws
setItem(store, key, value, ok) == IF ok THEN [store EXCEPT ![key] = {value}] ELSE store

toggleDevMode(oks) ==
  \E forceState \in { {}, {TRUE}, {FALSE} }, ok \in oks :
    /\ forceState = {TRUE} => welcomeVisible       \* the welcome card
    /\ forceState = {FALSE} => isDevMode           \* the console's close button
    /\ isDevMode' = IF forceState # {} THEN (CHOOSE b \in forceState : TRUE) ELSE ~isDevMode
    /\ storage' = setItem(storage, "devMode", JBoolean(isDevMode'), ok)
    /\ UNCHANGED << input, currentMedia, devConfig, probe >>
    /\ UnchangedConversation
    /\ updateUIForInput

\* the console's controls: an input or change event comes from one of them
Controls ==
  { <<"systemInstruction">>, <<"temperature">>, <<"topP">>, <<"maxOutputTokens">>,
    <<"model">>, <<"safetyThreshold">>, <<"forceTools">>,
    <<"tools", "googleSearch">>, <<"tools", "googleMaps">>, <<"tools", "thinking">> }

ControlValue(cfg, control) ==
  IF Len(control) = 1 THEN cfg[control[1]] ELSE cfg[control[1]][control[2]]

OneControlApart(a, b) ==
  \E c \in Controls :
    /\ ControlValue(a, c) # ControlValue(b, c)
    /\ \A o \in Controls \ {c} : ControlValue(a, o) = ControlValue(b, o)

updateDevConfig(configs, oks) ==
  \E cfg \in configs, ok \in oks :
    /\ OneControlApart(cfg, devConfig)
    /\ devConfig' = cfg
    /\ storage' = setItem(storage, "config", stringifyDevConfig(devConfig'), ok)
    /\ UNCHANGED << input, currentMedia, isDevMode, probe >>
    /\ UnchangedConversation
    /\ updateUIForInput

\* ------------------------------------------------------- conversation store

unshiftMessage(hist, msg) == << msg >> \o hist

\* saveMessage: localHistory.push(msg)
pushMessage(hist, msg) == Append(hist, msg)

saveStaleStorage(store, hist, msg, ok) ==
  setItem(store, "history", stringifyHistory(hist), ok)

\* saveMessage: the store as it is after the push is written under STORAGE_KEY
saveMessageStorage(store, hist, msg, ok) ==
  setItem(store, "history", stringifyHistory(pushMessage(hist, msg)), ok)

\* ------------------------------------------------------------- handleSend

\* the parts of the user turn: the attachment, then the trimmed text
userParts(text, media) ==
  (IF media # {} THEN << [text |-> {}, inlineData |-> media] >> ELSE <<>>)
  \o (IF text # <<>> THEN << [text |-> {text}, inlineData |-> {}] >> ELSE <<>>)

\* historyForApi: localHistory as it is inside the try block, mapped to role and parts
historyForApi(hist) == [ i \in 1..Len(hist) |-> [role |-> hist[i].role, parts |-> hist[i].parts] ]

\* the message sendMessageStream gets: the text itself when it is the only part
messagePayload(parts) ==
  IF Len(parts) = 1 /\ parts[1].text # {} /\ parts[1].text # {<<>>}
    THEN [text |-> parts[1].text, parts |-> {}]
    ELSE [text |-> {}, parts |-> {parts}]

\* ways a send is triggered: Enter and the send button use the field as it is,
\* a welcome card first puts its prompt into the field
Triggers(prompts) == { {} } \cup { {p} : p \in prompts }

acceptedAlways(text, media) == TRUE

\* if (!text && !currentMedia) return;
accepted(text, media) == text # <<>> \/ media # {}

handleSend(triggers, oks, maxSends) ==
  \E trigger \in triggers, ok \in oks :
    LET field == IF trigger = {} THEN input ELSE CHOOSE p \in trigger : TRUE
        text == Trim(field)
        d == determineConfig(text, currentMedia # {})
        parts == userParts(text, currentMedia)
        userMsg == [role |-> "user", parts |-> parts, timestamp |-> now, mode |-> {}]
    IN
    /\ trigger # {} => welcomeVisible
    /\ Len(sessions) < maxSends
    /\ accepted(text, currentMedia)
    /\ appState' = "chatting"
    /\ welcomeVisible' = FALSE
    /\ input' = <<>>
    /\ currentMedia' = {}
    /\ localHistory' = pushMessage(localHistory, userMsg)
    /\ storage' = saveMessageStorage(storage, localHistory, userMsg, ok)
    /\ sessions' = Append(sessions,
         [ pc               |-> "awaitStream",
           model            |-> d.model,
           config           |-> d.config,
           modeLabel        |-> d.modeLabel,
           parts            |-> parts,
           history          |-> historyForApi(localHistory'),
           message          |-> messagePayload(parts),
           requests         |-> 1,
           fullResponseText |-> <<>>,
           isFirstChunk     |-> TRUE,
           statusEl         |-> [attached |-> TRUE, error |-> {}],
           \* bookkeeping about the send, not read by the handler
           userIdx          |-> Len(localHistory'),
           writeOk          |-> ok,
           persisted        |-> storage'.history,
           fragments        |-> <<>>,
           grounding        |-> <<>>,
           sourcesGrid      |-> {},
           modelIdx         |-> 0 ])
    /\ UNCHANGED << isDevMode, devConfig, lastResponseContent, now, probe >>
    /\ lastConfig' = {ConfigCall(input, currentMedia # {})'}
    \* updateUIForInput runs before saveMessage(userMsg): the chips are made
    \* for the store as it was
    /\ quickActions' = getContextualActions(input', currentMedia' # {}, lastMsgRole(localHistory))

\* the await of chat.sendMessageStream resolves
streamOpens(s) ==
  /\ sessions[s].pc = "awaitStream"
  /\ sessions' = [sessions EXCEPT ![s].pc = "streaming"]
  /\ UNCHANGED << input, currentMedia, isDevMode, devConfig, appState, welcomeVisible,
                  localHistory, lastResponseContent, storage, now, lastConfig, quickActions, probe >>

\* fullResponseText += chunk.text : a chunk without text has text undefined
appendChunkText(acc, chunkText) ==
  acc \o (IF chunkText = {} THEN S_undefined ELSE CHOOSE t \in chunkText : TRUE)

\* one iteration of the for-await loop
chunkArrives(s, chunks, maxChunks) ==
  \E chunk \in chunks :
    /\ sessions[s].pc = "streaming"
    /\ Len(sessions[s].fragments) < maxChunks
    /\ sessions' = [sessions EXCEPT
         ![s].statusEl.attached = IF sessions[s].isFirstChunk THEN FALSE ELSE @,
         ![s].isFirstChunk = FALSE,
         ![s].fullResponseText = appendChunkText(@, chunk.text),
         \* contentDiv.innerHTML = parsedHTML drops what the message held
         ![s].sourcesGrid = IF chunk.groundingMetadata # {}
                              THEN renderGroundingSources(The(chunk.groundingMetadata), {})
                              ELSE {},
         ![s].fragments = Append(@, chunk.text),
         ![s].grounding = Append(@, chunk.groundingMetadata)]
    /\ UNCHANGED << input, currentMedia, isDevMode, devConfig, appState, welcomeVisible,
                    localHistory, lastResponseContent, storage, now, lastConfig, quickActions, probe >>

modelMessageRelabelled(sess, time) ==
  [ role |-> "model", parts |-> << [text |-> {sess.fullResponseText}, inlineData |-> {}] >>,
    timestamp |-> time, mode |-> {determineConfig(input, currentMedia # {}).modeLabel} ]

\* the model turn saved when the stream is exhausted
modelMessage(sess, time) ==
  [ role |-> "model", parts |-> << [text |-> {sess.fullResponseText}, inlineData |-> {}] >>,
    timestamp |-> time, mode |-> {sess.modeLabel} ]

\* the loop ends without error
streamEnds(s, oks) ==
  \E ok \in oks :
    /\ sessions[s].pc = "streaming"
    /\ lastResponseContent' = sessions[s].fullResponseText
    /\ localHistory' = pushMessage(localHistory, modelMessage(sessions[s], now))
    /\ storage' = saveMessageStorage(storage, localHistory, modelMessage(sessions[s], now), ok)
    /\ sessions' = [sessions EXCEPT ![s].pc = "completed", ![s].modelIdx = Len(localHistory')]
    /\ UNCHANGED << input, currentMedia, isDevMode, devConfig, appState, welcomeVisible,
                    now, lastConfig, probe >>
    /\ updateQuickActions

\* the catch block: the error text is written into statusEl, nothing else changes
catchError(sess) ==
  [ sess EXCEPT !.pc = "failed", !.statusEl.error = {"Error"} ]

sessionFailsSavingPartial(s) ==
  /\ sessions[s].pc \in {"awaitStream", "streaming"}
  /\ sessions' = [sessions EXCEPT ![s] = catchError(sessions[s])]
  /\ localHistory' = IF sessions[s].fullResponseText # <<>>
                       THEN pushMessage(localHistory, modelMessage(sessions[s], now))
                       ELSE localHistory
  /\ UNCHANGED << input, currentMedia, isDevMode, devConfig, appState, welcomeVisible,
                  lastResponseContent, storage, now, lastConfig, quickActions, probe >>

\* sendMessageStream rejects, or the stream raises
sessionFails(s) ==
  /\ sessions[s].pc \in {"awaitStream", "streaming"}
  /\ sessions' = [sessions EXCEPT ![s] = catchError(sessions[s])]
  /\ UNCHANGED << input, currentMedia, isDevMode, devConfig, appState, welcomeVisible,
                  localHistory, lastResponseContent, storage, now, lastConfig, quickActions, probe >>

\* ------------------------------------------------------------ whole program

Next ==
  \/ InputEvent(SessionTexts)
  \/ toggleDevMode({TRUE})
  \/ handleSend(Triggers({P_Card3}), BOOLEAN, MaxSends)
  \/ \E s \in 1..Len(sessions) : streamOpens(s)
  \/ \E s \in 1..Len(sessions) : chunkArrives(s, PlainChunks, MaxChunks)
  \/ \E s \in 1..Len(sessions) : streamEnds(s, BOOLEAN)
  \/ \E s \in 1..Len(sessions) : sessionFails(s)

Spec == Init /\ [][Next]_vars

\* ------------------------------------------- the store across page loads

\* Date.now() moves on
Tick(maxClock) ==
  /\ now < maxClock
  /\ now' = now + 1
  /\ UNCHANGED << input, currentMedia, isDevMode, devConfig, appState, welcomeVisible,
                  localHistory, lastResponseContent, storage, sessions, lastConfig,
                  quickActions, probe >>

\* the page is loaded again: the module's state is rebuilt from localStorage
\* as at startup, and what the page before was awaiting is gone with it
reload ==
  /\ localHistory' = loadHistory(storage)
  /\ appState' = IF Len(localHistory') > 0 THEN "chatting" ELSE "idle"
  /\ devConfig' = loadDevConfig(storage)
  /\ isDevMode' = loadDevMode(storage)
  /\ input' = <<>>
  /\ currentMedia' = {}
  /\ welcomeVisible' = (Len(localHistory') = 0)
  /\ lastResponseContent' = restoreLastResponse(localHistory')
  /\ sessions' = [ s \in 1..Len(sessions) |-> [sessions[s] EXCEPT !.pc = "unloaded"] ]
  /\ lastConfig' = IF isDevMode' THEN {ConfigCall(input, currentMedia # {})'} ELSE {}
  /\ updateQuickActions
  /\ UNCHANGED << storage, now, probe >>

StoreTexts == { <<>>, <<"h", "i">> }

StoreMimeTypes == { <<"i", "m", "a", "g", "e", "/", "p", "n", "g">> }

\* a fragment of plain text, and one with a fenced block
StoreChunks ==
  { [text |-> {<<"a">>}, groundingMetadata |-> {}],
    [text |-> {S_fence \o <<"x">> \o S_fence}, groundingMetadata |-> {}] }

NextStore ==
  \/ InputEvent(StoreTexts)
  \/ handleFile(StoreMimeTypes)
  \/ handleSend({ {} }, {TRUE}, MaxSends)
  \/ \E s \in 1..Len(sessions) : streamOpens(s)
  \/ \E s \in 1..Len(sessions) : chunkArrives(s, StoreChunks, MaxChunks)
  \/ \E s \in 1..Len(sessions) : streamEnds(s, {TRUE})
  \/ \E s \in 1..Len(sessions) : sessionFails(s)
  \/ Tick(MaxClock)
  \/ reload

SpecStore == Init /\ [][NextStore]_vars

\* ------------------------------------------------- configurator on its own

NextConfig ==
  \/ InputEvent(Texts)
  \/ handleFile(MimeTypes)
  \/ clearMedia
  \/ toggleDevMode({TRUE})
  \/ updateDevConfig(DevConfigs, {TRUE})

SpecConfig == Init /\ [][NextConfig]_vars

\* ---------------------------------------- two configurator calls compared

PureMimeTypes ==
  MimeTypes \cup { <<"i", "m", "a", "g", "e", "/", "g", "i", "f">> }

PureTexts == { <<>>, <<"f", "i", "n", "d", " ", "c", "o", "d", "e">> }

PureDevConfigs ==
  { DefaultDevConfig,
    [DefaultDevConfig EXCEPT !.forceTools = TRUE],
    [DefaultDevConfig EXCEPT !.forceTools = TRUE, !.tools.googleMaps = TRUE] }

\* the latest call is kept aside: the first of the two calls compared is any
\* call made so far
keepCall ==
  /\ probe = {}
  /\ lastConfig # {}
  /\ probe' = lastConfig
  /\ UNCHANGED << input, currentMedia, isDevMode, devConfig, appState, welcomeVisible,
                  localHistory, lastResponseContent, storage, sessions, now, lastConfig,
                  quickActions >>

NextPure ==
  \/ InputEvent(PureTexts)
  \/ handleFile(PureMimeTypes)
  \/ clearMedia
  \/ toggleDevMode({TRUE})
  \/ updateDevConfig(PureDevConfigs, {TRUE})
  \/ keepCall

SpecPure == Init /\ [][NextPure]_vars

\* ---------------------------------------------------- suggester on its own

SuggestTexts ==
  { <<>>,
    <<"h", "i">>,
    S_fence \o <<"x">> \o S_fence,
    S_fence \o <<"c", "o", "d", "e">> \o S_fence,
    <<"c", "o", "n", "s", "t", " ", "a">>,
    <<"C", "o", "d", "e">>,
    <<"W", "e", "a", "t", "h", "e", "r", "?">>,
    <<"s", "o", "l", "v", "e", " ", "i", "t">> }

NextSuggest ==
  \/ InputEvent(SuggestTexts)
  \/ handleFile(MimeTypes)
  \/ clearMedia
  \/ toggleDevMode({TRUE})
  \/ updateDevConfig(PureDevConfigs, {TRUE})

SpecSuggest == Init /\ [][NextSuggest]_vars

\* ------------------------------------------------ grounding on its own

\* entries of groundingChunks: a web page with a title, one without, a place
WebA == [uri |-> "https://a.example", title |-> {"A"}, maps |-> {}]

WebB == [uri |-> "https://b.example", title |-> {}, maps |-> {}]

PlaceP == [uri |-> "https://maps.example/p", title |-> {"P"}, maps |-> {}]

\* metadata without groundingChunks, with one entry, and the cumulative list
\* a later fragment carries
GroundingMetadatas ==
  { [groundingChunks |-> {}],
    [groundingChunks |-> { << [web |-> {WebA}, maps |-> {}] >> }],
    [groundingChunks |-> { << [web |-> {WebA}, maps |-> {}],
                              [web |-> {}, maps |-> {PlaceP}],
                              [web |-> {WebB}, maps |-> {}] >> }] }

GroundedChunks ==
  { [text |-> {<<"a">>}, groundingMetadata |-> g] :
      g \in { {} } \cup { {m} : m \in GroundingMetadatas } }

NextGrounding ==
  \/ InputEvent(StoreTexts)
  \/ handleSend({ {} }, {TRUE}, MaxSends)
  \/ \E s \in 1..Len(sessions) : streamOpens(s)
  \/ \E s \in 1..Len(sessions) : chunkArrives(s, GroundedChunks, MaxGroundedChunks)
  \/ \E s \in 1..Len(sessions) : streamEnds(s, {TRUE})
  \/ \E s \in 1..Len(sessions) : sessionFails(s)

SpecGrounding == Init /\ [][NextGrounding]_vars

\* ------------------------------------------------- startup over any storage

\* a conversation an earlier page wrote
StoredConversation ==
  << [role |-> "user", parts |-> userParts(<<"h", "i">>, {}), timestamp |-> 1, mode |-> {}],
     [role |-> "model",
      parts |-> << [text |-> {S_fence \o <<"x">> \o S_fence}, inlineData |-> {}] >>,
      timestamp |-> 1, mode |-> {L_FlashLite}] >>

\* a configuration an earlier page wrote
StoredDevConfig == [DefaultDevConfig EXCEPT !.forceTools = TRUE, !.tools.googleMaps = TRUE]

\* each of the three records is missing, is not JSON, or is what an earlier
\* page wrote
StoredStorages ==
  [ history : { {}, {Unparsable}, {stringifyHistory(StoredConversation)} },
    config  : { {}, {Unparsable}, {stringifyDevConfig(StoredDevConfig)} },
    devMode : { {}, {Unparsable}, {JBoolean(TRUE)} } ]

InitStored == Startup(StoredStorages)

NextStartup ==
  \/ reload
  \/ InputEvent(StoreTexts)
  \/ toggleDevMode(BOOLEAN)
  \/ updateDevConfig(PureDevConfigs, BOOLEAN)

SpecStartup == InitStored /\ [][NextStartup]_vars

\* ------------------------------------------------- writes that may throw

WriteDevConfigs == { DefaultDevConfig, [DefaultDevConfig EXCEPT !.forceTools = TRUE] }

NextWrites ==
  \/ InputEvent(StoreTexts)
  \/ toggleDevMode(BOOLEAN)
  \/ updateDevConfig(WriteDevConfigs, BOOLEAN)
  \/ handleSend({ {} }, BOOLEAN, MaxSends)
  \/ \E s \in 1..Len(sessions) : streamOpens(s)
  \/ \E s \in 1..Len(sessions) : streamEnds(s, BOOLEAN)
  \/ \E s \in 1..Len(sessions) : sessionFails(s)

SpecWrites == Init /\ [][NextWrites]_vars

\* ------------------------------------------- sends that come to an end

\* nothing, blanks only, a text within blanks
LiveTexts == { <<>>, <<" ", " ">>, <<" ", "h", "i", " ">> }

\* what the backend and the event loop do for session s
BackendStep(s) ==
  /\ s \in 1..Len(sessions)
  /\ \/ streamOpens(s)
     \/ chunkArrives(s, PlainChunks, MaxChunks)
     \/ streamEnds(s, {TRUE})
     \/ sessionFails(s)

NextLive ==
  \/ InputEvent(LiveTexts)
  \/ handleFile(StoreMimeTypes)
  \/ clearMedia
  \/ handleSend({ {} }, {TRUE}, MaxSends)
  \/ \E s \in 1..MaxSends : BackendStep(s)

\* the backend rejects the submission, or its stream ends or raises, and the
\* continuation of the await then runs: no session waits forever
SpecLive ==
  /\ Init
  /\ [][NextLive]_vars
  /\ \A s \in 1..MaxSends : WF_vars(BackendStep(s))

\* ------------------------------------- the console used during a stream

DescriptorDevConfigs == { DefaultDevConfig, [DefaultDevConfig EXCEPT !.model = M_PRO] }

NextDescriptor ==
  \/ InputEvent(StoreTexts)
  \/ handleFile(StoreMimeTypes)
  \/ toggleDevMode({TRUE})
  \/ updateDevConfig(DescriptorDevConfigs, {TRUE})
  \/ handleSend({ {} }, {TRUE}, MaxSends)
  \/ \E s \in 1..Len(sessions) : streamOpens(s)
  \/ \E s \in 1..Len(sessions) : chunkArrives(s, PlainChunks, MaxChunks)
  \/ \E s \in 1..Len(sessions) : streamEnds(s, {TRUE})

SpecDescriptor == Init /\ [][NextDescriptor]_vars

\* ==================================================================== claims

InFlight == { s \in 1..Len(sessions) : sessions[s].pc \in {"awaitStream", "streaming"} }

Completed == { s \in 1..Len(sessions) : sessions[s].pc = "completed" }

Failed == { s \in 1..Len(sessions) : sessions[s].pc = "failed" }

ModelTurns(hist) == { i \in 1..Len(hist) : hist[i].role = "model" }

IsPrefix(a, b) == Len(a) <= Len(b) /\ SubSeq(b, 1, Len(a)) = a

\* C1: at most one streaming session is in flight at any time; a handleSend
\* trigger while a session has not reached completed or failed starts no
\* second session.
C1_OneSessionInFlight == Cardinality(InFlight) <= 1

\* C2: the history submitted to the backend for a send is exactly the store as
\* it was before that send; the just-sent user turn is not in it and travels
\* only as the message payload.
C2_HistoryIsPriorTurns ==
  \A s \in 1..Len(sessions) :
    sessions[s].history = historyForApi(SubSeq(localHistory, 1, sessions[s].userIdx - 1))

\* C3: whatever the text, attachment, developer-mode flag and developer
\* configuration, the descriptor determineConfig returns never holds both a
\* thinkingConfig and a maxOutputTokens.
C3_NoBudgetWithCap ==
  \A c \in lastConfig :
    ~(c.result.config.thinkingConfig # {} /\ c.result.config.maxOutputTokens # {})

\* a developer-mode call that took the reasoning branch: the overlay ran and
\* had a cap to set
C3_Witness ==
  \E c \in lastConfig :
    /\ c.isDevMode
    /\ c.result.config.thinkingConfig # {}
    /\ c.result.config.temperature # {}

SameFourInputs(a, b) ==
  /\ a.text = b.text
  /\ a.hasMedia = b.hasMedia
  /\ a.isDevMode = b.isDevMode
  /\ a.devConfig = b.devConfig

IsVideo(media) == \E m \in media : StartsWith(m.mimeType, S_video)

\* C4 as stated: two determineConfig calls that agree on text, media presence,
\* developer-mode flag and developer configuration return the same descriptor.
C4_PureInFourInputs ==
  \A a \in probe, b \in lastConfig : SameFourInputs(a, b) => a.result = b.result

\* C4 as amended: two determineConfig calls that agree on text, media presence,
\* developer-mode flag, developer configuration and on whether the staged
\* attachment's MIME type starts with "video" return the same descriptor.
C4_PureGivenMediaKind ==
  \A a \in probe, b \in lastConfig :
    SameFourInputs(a, b) /\ IsVideo(a.media) = IsVideo(b.media) => a.result = b.result

\* two calls with attachments of different MIME types of the same kind
C4_Witness ==
  \E a \in probe, b \in lastConfig :
    /\ SameFourInputs(a, b)
    /\ a.hasMedia
    /\ a.media # b.media
    /\ IsVideo(a.media) = IsVideo(b.media)

\* C5: the conversation store is append-only: every step leaves the store it
\* found as a prefix of the store it leaves.
C5_AppendOnly == [][IsPrefix(localHistory, localHistory')]_vars

\* two overlapping sends, one completed and one failed, all their turns stored
C5_Witness ==
  /\ Len(localHistory) >= 3
  /\ Completed # {}
  /\ Failed # {}

UserTurnInStore(s) ==
  /\ sessions[s].userIdx \in 1..Len(localHistory)
  /\ localHistory[sessions[s].userIdx].role = "user"
  /\ localHistory[sessions[s].userIdx].parts = sessions[s].parts

UserTurnInStorage(s) ==
  \E j \in sessions[s].persisted :
    LET h == parseHistory(j) IN
    /\ sessions[s].userIdx \in 1..Len(h)
    /\ h[sessions[s].userIdx] = localHistory[sessions[s].userIdx]

\* C6 as stated: for every accepted send the user turn is in the store and in
\* persistent storage when the backend call is issued, and stays in the store
\* whether the session completes or fails.
C6_UserTurnPersisted ==
  \A s \in 1..Len(sessions) : UserTurnInStore(s) /\ UserTurnInStorage(s)

\* C6 as amended: for every accepted send the user turn is in the store when
\* the backend call is issued and stays there whether the session completes or
\* fails; it is in persistent storage at the backend call whenever the storage
\* write did not throw.
C6_UserTurnStoredAndWritten ==
  \A s \in 1..Len(sessions) :
    /\ UserTurnInStore(s)
    /\ sessions[s].userIdx \in 1..Len(sessions[s].history)
    /\ sessions[s].history[sessions[s].userIdx].parts = sessions[s].parts
    /\ sessions[s].writeOk => UserTurnInStorage(s)

\* a failed send whose write went through beside a completed one whose write threw
C6_Witness ==
  \E s \in Failed, t \in Completed :
    /\ sessions[s].writeOk /\ UserTurnInStorage(s)
    /\ ~sessions[t].writeOk /\ UserTurnInStore(t)

RECURSIVE FragmentText(_)
\* the texts of the fragments in arrival order; a fragment without text adds none
FragmentText(fragments) ==
  IF fragments = <<>> THEN <<>>
  ELSE (IF Head(fragments) = {} THEN <<>> ELSE CHOOSE t \in Head(fragments) : TRUE)
       \o FragmentText(Tail(fragments))

\* C7: a stream exhausted without error appends exactly one model message for
\* its session: one text part holding the fragments' texts concatenated in
\* arrival order, and the descriptor's mode label.
C7_ModelTurnIsConcatenation ==
  /\ Cardinality(ModelTurns(localHistory)) = Cardinality(Completed)
  /\ \A s \in Completed :
       /\ sessions[s].modelIdx \in ModelTurns(localHistory)
       /\ localHistory[sessions[s].modelIdx].parts
            = << [text |-> {FragmentText(sessions[s].fragments)}, inlineData |-> {}] >>
       /\ localHistory[sessions[s].modelIdx].mode = {sessions[s].modeLabel}

\* C8: a failed session leaves no model message, not even its partial text;
\* its user turn stays in the store; its send issued one backend request.
C8_FailureAppendsNothing ==
  /\ Cardinality(ModelTurns(localHistory)) = Cardinality(Completed)
  /\ \A s \in Failed :
       /\ sessions[s].modelIdx = 0
       /\ UserTurnInStore(s)
       /\ sessions[s].requests = 1

\* a session that failed after a fragment had arrived, beside a completed one
C8_Witness ==
  /\ \E s \in Failed : sessions[s].fullResponseText # <<>>
  /\ Completed # {}

\* C9: every backend failure, before or after the first fragment, shows its
\* error message on the affected model turn where the status indicator was.
C9_ErrorShownOnFailure ==
  \A s \in Failed :
    sessions[s].statusEl.attached /\ sessions[s].statusEl.error # {}

ManualTools(c) == c.isDevMode /\ c.devConfig.forceTools

\* C10: without manual tool override the descriptor follows the resolution
\* order, first match wins: attachment, reasoning-likely text, search-likely
\* text, developer mode, default; and never carries the maps tool.
C10_ResolutionOrder ==
  \A c \in lastConfig :
    ~ManualTools(c) =>
      LET r == c.result IN
      /\ \A t \in r.config.tools : \A i \in 1..Len(t) : t[i] # "googleMaps"
      /\ IF c.hasMedia THEN
           r.model = M_PRO /\ r.config.tools = {} /\ r.config.thinkingConfig = {}
         ELSE IF IntentThink(c.text) THEN
           /\ r.model = M_PRO
           /\ r.config.thinkingConfig = {[thinkingBudget |-> THINKING_BUDGET]}
           /\ r.config.tools = {}
         ELSE IF IntentSearch(c.text) THEN
           /\ r.model = M_FLASH
           /\ r.config.tools = {<< "googleSearch" >>}
           /\ r.config.thinkingConfig = {}
           /\ StartsWith(r.modeLabel, L_Search)
         ELSE IF c.isDevMode THEN
           r.model = c.devConfig.model /\ r.config.tools = {} /\ r.config.thinkingConfig = {}
         ELSE
           r.model = M_FLASH_LITE /\ r.config.tools = {} /\ r.config.thinkingConfig = {}

\* search-likely text in developer mode with the maps switch on but not forced
C10_Witness ==
  \E c \in lastConfig :
    /\ c.isDevMode /\ ~c.devConfig.forceTools /\ c.devConfig.tools.googleMaps
    /\ ~c.hasMedia /\ IntentSearch(c.text) /\ ~IntentThink(c.text)
    /\ c.result.config.tools = {<< "googleSearch" >>}


\* C11: in developer mode with forceTools set and nothing attached, the three
\* tool switches alone decide model, tool list and reasoning budget, whatever
\* the text; with all three off there is no tool and no budget and the
\* developer-selected base model is used.
C11_SwitchesDecide ==
  \A c \in lastConfig :
    ManualTools(c) /\ ~c.hasMedia =>
      LET r == c.result
          sw == c.devConfig.tools
      IN
      IF sw.thinking THEN
        /\ r.model = M_PRO
        /\ r.config.thinkingConfig = {[thinkingBudget |-> THINKING_BUDGET]}
        /\ r.config.tools = {}
      ELSE IF sw.googleSearch \/ sw.googleMaps THEN
        /\ r.model = M_FLASH
        /\ r.config.thinkingConfig = {}
        /\ r.config.tools =
             { (IF sw.googleSearch THEN << "googleSearch" >> ELSE <<>>)
               \o (IF sw.googleMaps THEN << "googleMaps" >> ELSE <<>>) }
      ELSE
        /\ r.model = c.devConfig.model
        /\ r.config.thinkingConfig = {}
        /\ r.config.tools = {}

\* manual override with all three switches off, on a text that is both
\* search- and reasoning-indicative
C11_Witness ==
  \E c \in lastConfig :
    /\ ManualTools(c) /\ ~c.hasMedia
    /\ ~c.devConfig.tools.thinking /\ ~c.devConfig.tools.googleSearch
    /\ ~c.devConfig.tools.googleMaps
    /\ IntentSearch(c.text) /\ IntentThink(c.text)
    /\ c.result.model = c.devConfig.model
    /\ c.result.config.tools = {}
    /\ c.result.config.thinkingConfig = {}


\* C12: while the storage writes succeed, loading the history record as at
\* startup gives the store that is in memory: the same messages in the same
\* order, each with its role, parts, timestamp and mode.
C12_ReloadYieldsStore == loadHistory(storage) = localHistory

\* a page loaded again over a stored exchange: a user turn with an attachment,
\* a model turn with its mode label, written at different times
C12_Witness ==
  /\ \E s \in 1..Len(sessions) : sessions[s].pc = "unloaded"
  /\ Len(localHistory) >= 2
  /\ \E i \in 1..Len(localHistory) :
       /\ localHistory[i].role = "user"
       /\ localHistory[i].parts[1].inlineData # {}
  /\ \E i \in 1..Len(localHistory) :
       /\ localHistory[i].role = "model"
       /\ localHistory[i].mode # {}
       /\ localHistory[i].timestamp # localHistory[1].timestamp


\* the labels of the chips shown
Suggested == { quickActions[i] : i \in 1..Len(quickActions) }

\* C13: whenever the text field holds a non-empty text with a fenced code
\* block marker and nothing is staged, the suggestions include Fix Bugs.
C13_FenceGetsFixBugs ==
  input # <<>> /\ Includes(input, S_fence) /\ currentMedia = {} => "Fix Bugs" \in Suggested


\* the store ends with a model turn
LastTurnIsModel == Len(localHistory) > 0 /\ localHistory[Len(localHistory)].role = "model"

\* the text of the model turn the store ends with
LastTurnText == The(localHistory[Len(localHistory)].parts[1].text)

\* C14: in every reachable state where the text field is empty, nothing is
\* staged and the store ends with a model turn whose text has a fenced code
\* block, the suggestions shown include Refactor.
C14_FencedResponseGetsRefactor ==
  input = <<>> /\ currentMedia = {} /\ LastTurnIsModel /\ Includes(LastTurnText, S_fence)
    => "Refactor" \in Suggested

\* the case after a start from a persisted conversation that ends with a
\* fenced response
C14_Witness ==
  /\ \E s \in 1..Len(sessions) : sessions[s].pc = "unloaded"
  /\ InFlight = {}
  /\ input = <<>> /\ currentMedia = {} /\ LastTurnIsModel /\ Includes(LastTurnText, S_fence)
  /\ quickActions = << "Refactor", "Add Comments", "Verify" >>


\* the sessions whose latest fragment carried grounding metadata
Grounded ==
  { s \in 1..Len(sessions) :
      Len(sessions[s].grounding) > 0
      /\ sessions[s].grounding[Len(sessions[s].grounding)] # {} }

LatestMetadata(s) == The(sessions[s].grounding[Len(sessions[s].grounding)])

EntriesOfKind(m, kind) ==
  { i \in 1..Len(groundingChunks(m)) : groundingChunks(m)[i][kind] # {} }

\* C15: after renderGroundingSources has run on a message, its source list is
\* the one derived from the latest metadata alone (one card per web entry, then
\* one per place entry); rendering the same metadata again leaves the list as
\* it is, and rendering any other metadata over it gives the same list as
\* rendering that metadata on a message without sources.
C15_RenderIsIdempotent ==
  \A s \in Grounded :
    LET m == LatestMetadata(s)
        grid == The(sessions[s].sourcesGrid)
        nWeb == Cardinality(EntriesOfKind(m, "web"))
        nMaps == Cardinality(EntriesOfKind(m, "maps"))
    IN
    /\ sessions[s].sourcesGrid # {}
    /\ Len(grid) = nWeb + nMaps
    /\ { grid[i].href : i \in 1..nWeb }
         = { The(groundingChunks(m)[i].web).uri : i \in EntriesOfKind(m, "web") }
    /\ { grid[i].href : i \in (nWeb + 1)..Len(grid) }
         = { The(groundingChunks(m)[i].maps).uri : i \in EntriesOfKind(m, "maps") }
    /\ renderGroundingSources(m, sessions[s].sourcesGrid) = sessions[s].sourcesGrid
    /\ \A m2 \in GroundingMetadatas :
         renderGroundingSources(m2, sessions[s].sourcesGrid) = renderGroundingSources(m2, {})

\* a message rendered with one source and then with the cumulative three
C15_Witness ==
  \E s \in Grounded :
    /\ Len(sessions[s].grounding) = 2
    /\ sessions[s].grounding[1] # {}
    /\ Len(groundingChunks(The(sessions[s].grounding[1]))) = 1
    /\ Len(The(sessions[s].sourcesGrid)) = 3
    /\ The(sessions[s].sourcesGrid)[3].href = PlaceP.uri


\* C16: when the page loads, a record that does not parse leaves its variable
\* at the declared default, and each record that does parse is loaded as
\* written, whatever the state of the other two records.
C16_RecordsLoadSeparately ==
  [][ reload =>
        /\ storage.history = {Unparsable} => localHistory' = <<>>
        /\ storage.config = {Unparsable} => devConfig' = DefaultDevConfig
        /\ storage.devMode = {Unparsable} => isDevMode' = FALSE
        /\ storage.history \notin { {}, {Unparsable} }
             => storage.history = {stringifyHistory(localHistory')}
        /\ storage.config \notin { {}, {Unparsable} }
             => storage.config = {stringifyDevConfig(devConfig')}
        /\ storage.devMode \notin { {}, {Unparsable} }
             => storage.devMode = {JBoolean(isDevMode')} ]_vars

\* started over a history record that does not parse and two records that do:
\* no conversation, the stored configuration and the stored flag
C16_Witness ==
  /\ storage.history = {Unparsable}
  /\ localHistory = <<>>
  /\ storage.config = {stringifyDevConfig(StoredDevConfig)}
  /\ devConfig = StoredDevConfig
  /\ storage.devMode = {JBoolean(TRUE)}
  /\ isDevMode
  /\ lastConfig # {}


C18_ModelTurnGetsVerify ==
  input = <<>> /\ currentMedia = {} /\ LastTurnIsModel => "Verify" \in Suggested

\* C18, amended: whenever the text field is empty, nothing is staged and the
\* store ends with a model turn whose text is not empty, the suggestions shown
\* include Verify; after a model turn with empty text they are the fallback
\* pair Brainstorm, Plan.
C18_NonEmptyModelTurnGetsVerify ==
  input = <<>> /\ currentMedia = {} /\ LastTurnIsModel
    => IF LastTurnText # <<>> THEN "Verify" \in Suggested
       ELSE quickActions = << "Brainstorm", "Plan" >>

\* a plain one-fragment response, completed with the field empty
C18_Witness ==
  /\ input = <<>> /\ currentMedia = {} /\ LastTurnIsModel
  /\ LastTurnText = <<"a">>
  /\ quickActions = << "Verify" >>
  /\ \E s \in Completed : sessions[s].modelIdx = Len(localHistory)


\* C19: every send that is accepted comes to completed or failed, given that
\* the backend rejects it or its stream ends or raises; and a session starts
\* only from a text field with more than blanks in it or a staged attachment:
\* a send without either starts nothing.
C19_AcceptedSendsEnd ==
  /\ [][ Len(sessions') > Len(sessions) => Trim(input) # <<>> \/ currentMedia # {} ]_vars
  /\ \A s \in 1..MaxSends :
       (Len(sessions) >= s) ~> (Len(sessions) >= s /\ sessions[s].pc \in {"completed", "failed"})

\* a send of an attachment without text has completed; blanks typed since have
\* started nothing
C19_Witness ==
  /\ \E s \in Completed :
       /\ Len(sessions[s].parts) = 1
       /\ sessions[s].parts[1].inlineData # {}
  /\ InFlight = {}
  /\ input = <<" ", " ">>
  /\ currentMedia = {}
  /\ Len(sessions) < MaxSends


\* C20: the model, the generation config and the mode label of a session are
\* those determineConfig returns for what the send reads, and stay so from the
\* send on, whatever is toggled, edited, staged or sent while it streams; its
\* one request is never issued again, and the model turn it appends carries
\* that label.
C20_DescriptorFixedAtSend ==
  [][ \A s \in 1..Len(sessions') :
        /\ s <= Len(sessions) =>
             /\ sessions'[s].model = sessions[s].model
             /\ sessions'[s].config = sessions[s].config
             /\ sessions'[s].modeLabel = sessions[s].modeLabel
             /\ sessions'[s].requests = sessions[s].requests
        /\ s > Len(sessions) =>
             LET d == determineConfig(Trim(input), currentMedia # {}) IN
             /\ sessions'[s].model = d.model
             /\ sessions'[s].config = d.config
             /\ sessions'[s].modeLabel = d.modeLabel
        /\ sessions'[s].pc = "completed" =>
             localHistory'[sessions'[s].modelIdx].mode = {sessions'[s].modeLabel}
    ]_vars

\* a session sent outside developer mode has completed after the console was
\* opened, its model changed, an attachment staged and a second send started:
\* its turn carries the label of the send, not the one the same text gets now
C20_Witness ==
  \E s \in Completed :
    /\ sessions[s].model = M_FLASH_LITE
    /\ sessions[s].modeLabel = L_FlashLite
    /\ isDevMode
    /\ devConfig.model = M_PRO
    /\ currentMedia # {}
    /\ \E t \in InFlight : t > s
    /\ localHistory[sessions[s].modelIdx].mode = {L_FlashLite}
    /\ determineConfig(The(sessions[s].parts[1].text), FALSE).modeLabel # L_FlashLite
    /\ determineConfig(The(sessions[s].parts[1].text), FALSE).model # M_FLASH_LITE

====
